---- MODULE Spec2Model ----
(***************************************************************************)
(* Model of podstats' src/subscription.rs: the Subscription record, its    *)
(* constructor and accessors, and the MessagePack persistence functions    *)
(* (serialize, deserialize, vec_serialize, vec_deserialize,                *)
(* file_deserialize).                                                      *)
(*                                                                         *)
(* Representation.  A String / Vec<u8> is a sequence of bytes 0..255.      *)
(* A u64 is a tuple of four base-65536 digits, most significant first, so  *)
(* that the whole 64-bit range is available.  An Option<T> is a sequence   *)
(* of length 0 (None) or 1 (Some).                                         *)
(***************************************************************************)
EXTENDS Integers, Sequences, FiniteSets, TLC

VARIABLES sub, ctor, subs, buf, file, ret

vars == <<sub, ctor, subs, buf, file, ret>>

-----------------------------------------------------------------------------
(* Bounds of the model.                                                    *)

\* longest Vec<Subscription> built by pushing
MaxSubs == 2

\* longest entries / queue / summary_queue in the persisted states received
MaxEntries == 2

-----------------------------------------------------------------------------
(* u64 values.                                                             *)

U64Zero == <<0, 0, 0, 0>>

U64Small(n) == <<0, 0, n \div 65536, n % 65536>>

\* a >= b on u64 values
U64Geq(a, b) ==
    \/ a = b
    \/ \E i \in 1..4 : a[i] > b[i] /\ \A j \in 1..(i - 1) : a[j] = b[j]

\* big-endian bytes of one base-65536 digit
B2(d) == <<d \div 256, d % 256>>

-----------------------------------------------------------------------------
(* rmps::to_vec: the MessagePack encoding serde derives for the structs.   *)
(* Structs are written as arrays of their fields in declaration order,     *)
(* integers and lengths in the shortest format that holds them.            *)

EncBool(b) == IF b THEN <<195>> ELSE <<194>>

EncNil == <<192>>

EncU64(v) ==
    IF v[1] = 0 /\ v[2] = 0 /\ v[3] = 0
    THEN IF v[4] < 128 THEN <<v[4]>>
         ELSE IF v[4] < 256 THEN <<204, v[4]>>
         ELSE <<205>> \o B2(v[4])
    ELSE IF v[1] = 0 /\ v[2] = 0
    THEN <<206>> \o B2(v[3]) \o B2(v[4])
    ELSE <<207>> \o B2(v[1]) \o B2(v[2]) \o B2(v[3]) \o B2(v[4])

EncStrLen(n) ==
    IF n < 32 THEN <<160 + n>>
    ELSE IF n < 256 THEN <<217, n>>
    ELSE IF n < 65536 THEN <<218>> \o B2(n)
    ELSE <<219>> \o B2(n \div 65536) \o B2(n % 65536)

EncStr(s) == EncStrLen(Len(s)) \o s

EncArrayLen(n) ==
    IF n < 16 THEN <<144 + n>>
    ELSE IF n < 65536 THEN <<220>> \o B2(n)
    ELSE <<221>> \o B2(n \div 65536) \o B2(n % 65536)


\* variant: a limit of zero is written like an absent one
EncOptU64_ZeroAsNil(o) == IF o = <<>> \/ o = <<U64Zero>> THEN EncNil ELSE EncU64(o[1])

EncOptU64(o) == IF o = <<>> THEN EncNil ELSE EncU64(o[1])

EncOptBool(o) == IF o = <<>> THEN EncNil ELSE EncBool(o[1])

RECURSIVE EncStrs(_)
EncStrs(ss) == IF ss = <<>> THEN <<>> ELSE EncStr(Head(ss)) \o EncStrs(Tail(ss))

EncEntry(e) ==
    EncArrayLen(2) \o EncStr(e.title) \o EncArrayLen(Len(e.urls)) \o EncStrs(e.urls)

RECURSIVE EncEntries(_)
EncEntries(es) ==
    IF es = <<>> THEN <<>> ELSE EncEntry(Head(es)) \o EncEntries(Tail(es))

EncSummaryEntry(e) ==
    EncArrayLen(3) \o EncBool(e.is_this_session) \o EncU64(e.number) \o EncStr(e.name)

RECURSIVE EncSummaries(_)
EncSummaries(es) ==
    IF es = <<>> THEN <<>> ELSE EncSummaryEntry(Head(es)) \o EncSummaries(Tail(es))

EncFeedState(fs) ==
    EncArrayLen(4)
    \o EncArrayLen(Len(fs.entries)) \o EncEntries(fs.entries)
    \o EncArrayLen(Len(fs.queue)) \o EncEntries(fs.queue)
    \o EncU64(fs.latest_entry_number)
    \o EncArrayLen(Len(fs.summary_queue)) \o EncSummaries(fs.summary_queue)

EncSubscription(s) ==
    EncArrayLen(7)
    \o EncStr(s.url) \o EncStr(s.original_url) \o EncStr(s.name)
    \o EncStr(s.directory)
    \o EncOptU64(s.backlog_limit) \o EncOptBool(s.use_title_as_filename)
    \o EncFeedState(s.feed_state)

RECURSIVE EncSubscriptions(_)
EncSubscriptions(ss) ==
    IF ss = <<>> THEN <<>> ELSE EncSubscription(Head(ss)) \o EncSubscriptions(Tail(ss))

EncVec(ss) == EncArrayLen(Len(ss)) \o EncSubscriptions(ss)

\* rmps::to_vec(&sub): Ok(bytes).  Encoding fails only for a string or
\* sequence longer than u32::MAX, which no value here reaches.
to_vec_sub(s) == [ok |-> TRUE, bytes |-> EncSubscription(s)]

to_vec_subs(ss) == [ok |-> TRUE, bytes |-> EncVec(ss)]

-----------------------------------------------------------------------------
(* rmps::from_slice: the decoder.  A decoding step at position p of bytes  *)
(* b yields [ok, val, pos]: the value and the position after it, or a      *)
(* failure.  Integers are accepted in every MessagePack integer format     *)
(* holding a non-negative value, strings must be valid UTF-8, a struct     *)
(* must be an array of exactly its field count, and bytes after the        *)
(* top-level value are not looked at.                                      *)

Fail == [ok |-> FALSE, val |-> <<>>, pos |-> 0]

Ok(v, p) == [ok |-> TRUE, val |-> v, pos |-> p]

\* n bytes are available at p
Avail(b, p, n) == p + n - 1 <= Len(b)

\* the digit made of the two bytes at p
D2(b, p) == b[p] * 256 + b[p + 1]

DecU64(b, p) ==
    IF ~Avail(b, p, 1) THEN Fail
    ELSE LET m == b[p] IN
      IF m < 128 THEN Ok(<<0, 0, 0, m>>, p + 1)
      ELSE IF m = 204 \/ m = 208
      THEN IF Avail(b, p, 2) /\ (m = 204 \/ b[p + 1] < 128)
           THEN Ok(<<0, 0, 0, b[p + 1]>>, p + 2) ELSE Fail
      ELSE IF m = 205 \/ m = 209
      THEN IF Avail(b, p, 3) /\ (m = 205 \/ b[p + 1] < 128)
           THEN Ok(<<0, 0, 0, D2(b, p + 1)>>, p + 3) ELSE Fail
      ELSE IF m = 206 \/ m = 210
      THEN IF Avail(b, p, 5) /\ (m = 206 \/ b[p + 1] < 128)
           THEN Ok(<<0, 0, D2(b, p + 1), D2(b, p + 3)>>, p + 5) ELSE Fail
      ELSE IF m = 207 \/ m = 211
      THEN IF Avail(b, p, 9) /\ (m = 207 \/ b[p + 1] < 128)
           THEN Ok(<<D2(b, p + 1), D2(b, p + 3), D2(b, p + 5), D2(b, p + 7)>>, p + 9)
           ELSE Fail
      ELSE Fail

DecBool(b, p) ==
    IF ~Avail(b, p, 1) THEN Fail
    ELSE IF b[p] = 195 THEN Ok(TRUE, p + 1)
    ELSE IF b[p] = 194 THEN Ok(FALSE, p + 1)
    ELSE Fail

DecOptU64(b, p) ==
    IF ~Avail(b, p, 1) THEN Fail
    ELSE IF b[p] = 192 THEN Ok(<<>>, p + 1)
    ELSE LET r == DecU64(b, p) IN IF r.ok THEN Ok(<<r.val>>, r.pos) ELSE Fail

DecOptBool(b, p) ==
    IF ~Avail(b, p, 1) THEN Fail
    ELSE IF b[p] = 192 THEN Ok(<<>>, p + 1)
    ELSE LET r == DecBool(b, p) IN IF r.ok THEN Ok(<<r.val>>, r.pos) ELSE Fail

\* a length that fits the model's integers, read from four bytes at p
Len4(b, p) == D2(b, p) * 65536 + D2(b, p + 2)

\* array header: val is the element count
DecArrayLen(b, p) ==
    IF ~Avail(b, p, 1) THEN Fail
    ELSE LET m == b[p] IN
      IF m >= 144 /\ m < 160 THEN Ok(m - 144, p + 1)
      ELSE IF m = 220 THEN IF Avail(b, p, 3) THEN Ok(D2(b, p + 1), p + 3) ELSE Fail
      ELSE IF m = 221
      THEN IF Avail(b, p, 5) /\ b[p + 1] < 128 THEN Ok(Len4(b, p + 1), p + 5) ELSE Fail
      ELSE Fail

\* string header: val is the byte count
DecStrLen(b, p) ==
    IF ~Avail(b, p, 1) THEN Fail
    ELSE LET m == b[p] IN
      IF m >= 160 /\ m < 192 THEN Ok(m - 160, p + 1)
      ELSE IF m = 217 THEN IF Avail(b, p, 2) THEN Ok(b[p + 1], p + 2) ELSE Fail
      ELSE IF m = 218 THEN IF Avail(b, p, 3) THEN Ok(D2(b, p + 1), p + 3) ELSE Fail
      ELSE IF m = 219
      THEN IF Avail(b, p, 5) /\ b[p + 1] < 128 THEN Ok(Len4(b, p + 1), p + 5) ELSE Fail
      ELSE Fail

Cont(c) == c >= 128 /\ c < 192

\* bytes in the sequence a lead byte opens (0: not a lead byte)
SeqLen(c) ==
    IF c < 128 THEN 1
    ELSE IF c >= 194 /\ c < 224 THEN 2
    ELSE IF c >= 224 /\ c < 240 THEN 3
    ELSE IF c >= 240 /\ c < 245 THEN 4
    ELSE 0

\* str::from_utf8 succeeds: every lead byte is followed by its continuation
\* bytes (the first within the range its lead allows), and every
\* continuation byte belongs to a lead byte before it
Utf8Valid(s) ==
    \A i \in 1..Len(s) :
      LET c == s[i] IN
      IF Cont(c)
      THEN \E k \in 1..3 :
             /\ i - k >= 1
             /\ SeqLen(s[i - k]) > k
             /\ \A j \in (i - k + 1)..(i - 1) : Cont(s[j])
      ELSE /\ SeqLen(c) > 0
           /\ i + SeqLen(c) - 1 <= Len(s)
           /\ \A j \in (i + 1)..(i + SeqLen(c) - 1) : Cont(s[j])
           /\ (c = 224 => s[i + 1] >= 160)
           /\ (c = 237 => s[i + 1] < 160)
           /\ (c = 240 => s[i + 1] >= 144)
           /\ (c = 244 => s[i + 1] < 144)

\* the h.val bytes after a string header h
StrBody(b, h) ==
    IF ~h.ok THEN Fail
    ELSE IF ~Avail(b, h.pos, h.val) THEN Fail
    ELSE IF Utf8Valid(SubSeq(b, h.pos, h.pos + h.val - 1))
    THEN Ok(SubSeq(b, h.pos, h.pos + h.val - 1), h.pos + h.val)
    ELSE Fail

DecStr(b, p) == StrBody(b, DecStrLen(b, p))

(* A struct or sequence is decoded field by field.  The decoding state      *)
(* [ok, pos, out] holds the position reached and the values decoded so far; *)
(* once a step fails the state stays failed.                                *)

Failed == [ok |-> FALSE, pos |-> 1, out |-> <<>>]

Begin(p) == [ok |-> TRUE, pos |-> p, out |-> <<>>]

\* the state after a header h that must announce n elements
Header(h, n) == IF h.ok /\ h.val = n THEN Begin(h.pos) ELSE Failed

\* the state st extended by the decoding result r
Take(st, r) ==
    IF st.ok /\ r.ok THEN [ok |-> TRUE, pos |-> r.pos, out |-> Append(st.out, r.val)]
    ELSE Failed

\* the values of a finished state as one sequence value
Collected(st) == IF st.ok THEN Ok(st.out, st.pos) ELSE Fail

StepStr(b, st) == Take(st, DecStr(b, st.pos))

StepU64(b, st) == Take(st, DecU64(b, st.pos))

StepBool(b, st) == Take(st, DecBool(b, st.pos))

StepOptU64(b, st) == Take(st, DecOptU64(b, st.pos))

StepOptBool(b, st) == Take(st, DecOptBool(b, st.pos))

\* n strings
RECURSIVE DecStrs(_, _, _)
DecStrs(b, st, n) ==
    IF n = 0 \/ ~st.ok THEN st ELSE DecStrs(b, StepStr(b, st), n - 1)

\* the elements after the header h of a Vec<String>
StrVecBody(b, h) ==
    IF ~h.ok THEN Fail ELSE Collected(DecStrs(b, Begin(h.pos), h.val))

StepStrVec(b, st) == Take(st, StrVecBody(b, DecArrayLen(b, st.pos)))

EntryOf(st) ==
    IF st.ok THEN Ok([title |-> st.out[1], urls |-> st.out[2]], st.pos) ELSE Fail

DecEntry(b, p) ==
    EntryOf(StepStrVec(b, StepStr(b, Header(DecArrayLen(b, p), 2))))

StepEntry(b, st) == Take(st, DecEntry(b, st.pos))

RECURSIVE DecEntries(_, _, _)
DecEntries(b, st, n) ==
    IF n = 0 \/ ~st.ok THEN st ELSE DecEntries(b, StepEntry(b, st), n - 1)

\* the elements after the header h of a Vec<Entry>
EntryVecBody(b, h) ==
    IF ~h.ok THEN Fail ELSE Collected(DecEntries(b, Begin(h.pos), h.val))

StepEntryVec(b, st) == Take(st, EntryVecBody(b, DecArrayLen(b, st.pos)))

SummaryEntryOf(st) ==
    IF st.ok
    THEN Ok([is_this_session |-> st.out[1], number |-> st.out[2], name |-> st.out[3]],
            st.pos)
    ELSE Fail

DecSummaryEntry(b, p) ==
    SummaryEntryOf(StepStr(b, StepU64(b, StepBool(b, Header(DecArrayLen(b, p), 3)))))

StepSummaryEntry(b, st) == Take(st, DecSummaryEntry(b, st.pos))

RECURSIVE DecSummaries(_, _, _)
DecSummaries(b, st, n) ==
    IF n = 0 \/ ~st.ok THEN st ELSE DecSummaries(b, StepSummaryEntry(b, st), n - 1)

\* the elements after the header h of a Vec<SummaryEntry>
SummaryVecBody(b, h) ==
    IF ~h.ok THEN Fail ELSE Collected(DecSummaries(b, Begin(h.pos), h.val))

StepSummaryVec(b, st) == Take(st, SummaryVecBody(b, DecArrayLen(b, st.pos)))

FeedStateOf(st) ==
    IF st.ok
    THEN Ok([entries |-> st.out[1], queue |-> st.out[2],
             latest_entry_number |-> st.out[3], summary_queue |-> st.out[4]], st.pos)
    ELSE Fail

DecFeedState(b, p) ==
    FeedStateOf(
      StepSummaryVec(b, StepU64(b, StepEntryVec(b, StepEntryVec(b,
        Header(DecArrayLen(b, p), 4))))))

StepFeedState(b, st) == Take(st, DecFeedState(b, st.pos))

SubscriptionOf(st) ==
    IF st.ok
    THEN Ok([url |-> st.out[1], original_url |-> st.out[2], name |-> st.out[3],
             directory |-> st.out[4], backlog_limit |-> st.out[5],
             use_title_as_filename |-> st.out[6], feed_state |-> st.out[7]], st.pos)
    ELSE Fail

DecSubscription(b, p) ==
    SubscriptionOf(
      StepFeedState(b, StepOptBool(b, StepOptU64(b,
        StepStr(b, StepStr(b, StepStr(b, StepStr(b,
          Header(DecArrayLen(b, p), 7)))))))))

\* variant: each decoded element is put in front of the ones decoded before
\* it, so the collection comes back in the opposite order
StepSubscription_Reversed(b, st) ==
    LET r == DecSubscription(b, st.pos) IN
    IF st.ok /\ r.ok THEN [ok |-> TRUE, pos |-> r.pos, out |-> <<r.val>> \o st.out]
    ELSE Failed

StepSubscription(b, st) == Take(st, DecSubscription(b, st.pos))

RECURSIVE DecSubscriptions(_, _, _)
DecSubscriptions(b, st, n) ==
    IF n = 0 \/ ~st.ok THEN st ELSE DecSubscriptions(b, StepSubscription(b, st), n - 1)

\* the elements after the header h of a Vec<Subscription>
SubscriptionVecBody(b, h) ==
    IF ~h.ok THEN Fail ELSE Collected(DecSubscriptions(b, Begin(h.pos), h.val))

\* rmps::from_slice::<Subscription>
from_slice_sub(b) == DecSubscription(b, 1)

\* rmps::from_slice::<Vec<Subscription>>
from_slice_subs(b) == SubscriptionVecBody(b, DecArrayLen(b, 1))

-----------------------------------------------------------------------------
(* The functions of subscription.rs.                                       *)

\* "fakedir"
fakedir == <<102, 97, 107, 101, 100, 105, 114>>


\* variant: the given directory is dropped
process_directory_Ignored(directory) == fakedir

process_directory(directory) ==
    IF directory # <<>> THEN directory[1] ELSE fakedir

Subscription_new(url, name, directory) ==
    [url |-> url,
     original_url |-> url,
     name |-> name,
     directory |-> process_directory(directory),
     backlog_limit |-> <<U64Zero>>,
     use_title_as_filename |-> <<FALSE>>,
     feed_state |-> [latest_entry_number |-> U64Zero,
                     queue |-> <<>>,
                     entries |-> <<>>,
                     summary_queue |-> <<>>]]

get_latest_entry_number(self) == self.feed_state.latest_entry_number


\* variant: reads the front of entries
get_earliest_entry_name_First(self) ==
    LET entries == self.feed_state.entries IN
    IF entries # <<>> THEN entries[1].title ELSE <<>>

get_earliest_entry_name(self) ==
    LET entries == self.feed_state.entries IN
    IF entries # <<>> THEN entries[Len(entries)].title ELSE <<>>

get_latest_entry_name(self) ==
    LET entries == self.feed_state.entries IN
    IF entries # <<>> THEN entries[1].title ELSE <<>>

\* variant: the rewrite also overwrites original_url
set_url_Both(self, url) == [self EXCEPT !.url = url, !.original_url = url]

\* variant: the rewrite builds the subscription anew, dropping its feed state
set_url_Rebuilt(self, url) ==
    [Subscription_new(url, self.name, <<self.directory>>)
       EXCEPT !.original_url = self.original_url]

\* a write to the public field url
set_url(self, url) == [self EXCEPT !.url = url]

\* what a call hands back: a value, or a panic that ends the process
Returned(op, kind, val) == [op |-> op, kind |-> kind, val |-> val]

serialize(s) ==
    LET op_vec == to_vec_sub(s) IN
    IF op_vec.ok THEN op_vec.bytes ELSE <<>>

vec_serialize(ss) ==
    LET op_vec == to_vec_subs(ss) IN
    IF op_vec.ok THEN op_vec.bytes ELSE <<>>

deserialize(sub_vec) ==
    LET op_sub == from_slice_sub(sub_vec) IN
    IF op_sub.ok THEN Returned("deserialize", "Some", <<op_sub.val>>)
    ELSE Returned("deserialize", "None", <<>>)

\* variant: a decoding error is handed back as None
vec_deserialize_None(sub_vec) ==
    LET op_subs == from_slice_subs(sub_vec) IN
    IF op_subs.ok THEN Returned("vec_deserialize", "Some", <<op_subs.val>>)
    ELSE Returned("vec_deserialize", "None", <<>>)

vec_deserialize(sub_vec) ==
    LET op_subs == from_slice_subs(sub_vec) IN
    IF op_subs.ok THEN Returned("vec_deserialize", "Some", <<op_subs.val>>)
    ELSE Returned("vec_deserialize", "panic", <<>>)

\* variant: a failed read is ignored and the buffer decoded as it is
file_deserialize_ReadIgnored(f) ==
    IF f.state = "absent" THEN Returned("file_deserialize", "panic", <<>>)
    ELSE LET buffer == f.bytes IN
         [vec_deserialize(buffer) EXCEPT !.op = "file_deserialize"]

\* the path names a file f = [state, bytes]: absent (open fails), ioerror
\* (open succeeds, reading fails) or ok
file_deserialize(f) ==
    IF f.state = "absent" THEN Returned("file_deserialize", "panic", <<>>)
    ELSE IF f.state = "ioerror" THEN Returned("file_deserialize", "panic", <<>>)
    ELSE LET buffer == f.bytes IN
         [vec_deserialize(buffer) EXCEPT !.op = "file_deserialize"]

-----------------------------------------------------------------------------
(* Input values.                                                           *)

\* "testurl", "testname"
testurl == <<116, 101, 115, 116, 117, 114, 108>>

testname == <<116, 101, 115, 116, 110, 97, 109, 101>>

\* "new/url", a rewritten locator
newurl == <<110, 101, 119, 47, 117, 114, 108>>

\* "dir"
somedir == <<100, 105, 114>>

\* a string of n bytes 'x'
Xs(n) == [i \in 1..n |-> 120]

\* titles: short, 31 and 32 bytes (around the fixstr limit), two-byte UTF-8
Title(i) ==
    IF i % 4 = 1 THEN <<69, 48 + (i % 10)>>
    ELSE IF i % 4 = 2 THEN Xs(32)
    ELSE IF i % 4 = 3 THEN <<195, 169, 48 + (i % 10)>>
    ELSE Xs(31)

Urls(i) ==
    IF i % 3 = 1 THEN <<>>
    ELSE IF i % 3 = 2 THEN <<testurl, <<>>>>
    ELSE <<newurl>>

\* numbers in each of the five integer formats
Number(i) ==
    IF i % 6 = 0 THEN U64Zero
    ELSE IF i % 6 = 1 THEN U64Small(200)
    ELSE IF i % 6 = 2 THEN U64Small(65536)
    ELSE IF i % 6 = 3 THEN <<65535, 65535, 65535, 65535>>
    ELSE IF i % 6 = 4 THEN U64Small(256)
    ELSE U64Small(127)

SampleEntry(i) == [title |-> Title(i), urls |-> Urls(i)]

SampleSummary(i) ==
    [is_this_session |-> (i % 2 = 1), number |-> Number(i + 1), name |-> Title(i)]

\* a persisted feed state with k entries, newest first
SampleFeedState(k) ==
    [entries |-> [i \in 1..k |-> SampleEntry(i)],
     queue |-> [i \in 1..(k \div 2) |-> SampleEntry(i + 1)],
     latest_entry_number |-> Number(k),
     summary_queue |-> [i \in 1..k |-> SampleSummary(i)]]

\* a subscription as an earlier run left it
SampleSub(k) ==
    [url |-> newurl,
     original_url |-> testurl,
     name |-> IF k % 2 = 0 THEN testname ELSE <<>>,
     directory |-> somedir,
     backlog_limit |-> IF k % 2 = 0 THEN <<>> ELSE <<Number(k + 2)>>,
     use_title_as_filename |-> IF k % 3 = 0 THEN <<>> ELSE <<TRUE>>,
     feed_state |-> SampleFeedState(k)]

\* sixteen entries and a 256-byte name: array 16 and str 16 headers
WideSub ==
    [SampleSub(16) EXCEPT !.name = Xs(256)]

\* a subscription written with wider integer formats than needed:
\* ["u","o","n","d", 5 as u16, true, [[], [], 7 as i8, []]]
NonCanonicalBytes ==
    <<151, 161, 117, 161, 111, 161, 110, 161, 100, 205, 0, 5, 195,
      148, 144, 144, 208, 7, 144>>

\* the first n bytes
Prefix(b, n) == SubSeq(b, 1, n)

\* bytes that encode neither a Subscription nor a Vec<Subscription>
JunkBytes ==
    { <<>>,
      <<192>>,
      <<151>>,
      <<151, 195>>,
      <<151, 161, 255>>,
      <<151, 161, 117, 161, 111, 161, 110, 161, 100, 255, 195,
        148, 144, 144, 0, 144>>,
      Prefix(EncSubscription(Subscription_new(testurl, testname, <<>>)), 20) }

\* what Vec::push puts into the collection
PushValues ==
    { Subscription_new(testurl, testname, <<>>), SampleSub(MaxEntries) }

\* every Vec<Subscription> of at most n pushed values
RECURSIVE VecsUpTo(_)
VecsUpTo(n) ==
    IF n = 0 THEN { <<>> }
    ELSE LET shorter == VecsUpTo(n - 1) IN
         shorter \cup { Append(v, s) : v \in { w \in shorter : Len(w) = n - 1 },
                                        s \in PushValues }

\* an encoded collection cut after its first element: header of two, one
\* subscription
CutVecBytes ==
    LET s == Subscription_new(testurl, testname, <<>>) IN
    Prefix(EncVec(<<s, s>>), 1 + Len(EncSubscription(s)))

\* bytes arriving from outside, for a single subscription
BytesOne ==
    { EncSubscription(SampleSub(k)) : k \in 0..MaxEntries }
    \cup { EncSubscription(WideSub), NonCanonicalBytes }
    \cup JunkBytes
    \cup { EncVec(<<>>), EncVec(<<SampleSub(1)>>) }

\* bytes arriving from outside, for a collection
BytesMany ==
    JunkBytes
    \cup { CutVecBytes, EncSubscription(SampleSub(1)),
           EncVec(<<WideSub>>), <<145>> \o NonCanonicalBytes }

\* inputs that are not an encoded Subscription
MalformedOne == JunkBytes \cup { CutVecBytes } \cup { EncVec(v) : v \in VecsUpTo(MaxSubs) }

\* inputs that are not an encoded Vec<Subscription>
MalformedMany ==
    JunkBytes \cup { CutVecBytes }
    \cup { EncSubscription(SampleSub(k)) : k \in 0..MaxEntries }

-----------------------------------------------------------------------------
(* State.                                                                  *)
(*   sub   Option: the subscription the caller holds                       *)
(*   ctor  Option: the arguments of Subscription::new that built sub       *)
(*   subs  the caller's Vec<Subscription>                                  *)
(*   buf   the caller's Vec<u8>                                            *)
(*   file  the file at the path: [state, bytes]                            *)
(*   ret   what the last call returned: [op, kind, val]                    *)

NoFile == [state |-> "absent", bytes |-> <<>>]

Init ==
    /\ sub = <<>>
    /\ ctor = <<>>
    /\ subs = <<>>
    /\ buf = <<>>
    /\ file = NoFile
    /\ ret = Returned("start", "unit", <<>>)

\* a panic ends the process
Running == ret.kind # "panic"

New(url, name, directory) ==
    /\ Running
    /\ sub' = <<Subscription_new(url, name, directory)>>
    /\ ctor' = <<[url |-> url, name |-> name, directory |-> directory]>>
    /\ ret' = Returned("new", "unit", <<>>)
    /\ UNCHANGED <<subs, buf, file>>

SetUrl(url) ==
    /\ Running
    /\ sub # <<>>
    /\ sub' = <<set_url(sub[1], url)>>
    /\ ret' = Returned("set_url", "unit", <<>>)
    /\ UNCHANGED <<ctor, subs, buf, file>>

GetLatestEntryNumber ==
    /\ Running
    /\ sub # <<>>
    /\ ret' = Returned("get_latest_entry_number", "value",
                       <<get_latest_entry_number(sub[1])>>)
    /\ UNCHANGED <<sub, ctor, subs, buf, file>>

GetEarliestEntryName ==
    /\ Running
    /\ sub # <<>>
    /\ ret' = Returned("get_earliest_entry_name", "value",
                       <<get_earliest_entry_name(sub[1])>>)
    /\ UNCHANGED <<sub, ctor, subs, buf, file>>

GetLatestEntryName ==
    /\ Running
    /\ sub # <<>>
    /\ ret' = Returned("get_latest_entry_name", "value",
                       <<get_latest_entry_name(sub[1])>>)
    /\ UNCHANGED <<sub, ctor, subs, buf, file>>

Serialize ==
    /\ Running
    /\ sub # <<>>
    /\ buf' = serialize(sub[1])
    /\ ret' = Returned("serialize", "unit", <<>>)
    /\ UNCHANGED <<sub, ctor, subs, file>>

Deserialize ==
    /\ Running
    /\ ret' = deserialize(buf)
    /\ UNCHANGED <<sub, ctor, subs, buf, file>>

\* re_sub.unwrap(): the caller takes the decoded subscription, or panics
Unwrap ==
    /\ Running
    /\ ret.op = "deserialize"
    /\ IF ret.kind = "Some"
       THEN /\ sub' = <<ret.val[1]>>
            /\ ctor' = <<>>
            /\ ret' = Returned("unwrap", "unit", <<>>)
       ELSE /\ ret' = Returned("unwrap", "panic", <<>>)
            /\ UNCHANGED <<sub, ctor>>
    /\ UNCHANGED <<subs, buf, file>>

\* bytes read from elsewhere
Receive(b) ==
    /\ Running
    /\ buf' = b
    /\ ret' = Returned("receive", "unit", <<>>)
    /\ UNCHANGED <<sub, ctor, subs, file>>

Push(s) ==
    /\ Running
    /\ Len(subs) < MaxSubs
    /\ subs' = Append(subs, s)
    /\ ret' = Returned("push", "unit", <<>>)
    /\ UNCHANGED <<sub, ctor, buf, file>>

VecSerialize ==
    /\ Running
    /\ buf' = vec_serialize(subs)
    /\ ret' = Returned("vec_serialize", "unit", <<>>)
    /\ UNCHANGED <<sub, ctor, subs, file>>

VecDeserialize ==
    /\ Running
    /\ ret' = vec_deserialize(buf)
    /\ UNCHANGED <<sub, ctor, subs, buf, file>>

\* File::create and write_all of the buffer
WriteFile ==
    /\ Running
    /\ file' = [state |-> "ok", bytes |-> buf]
    /\ ret' = Returned("write_file", "unit", <<>>)
    /\ UNCHANGED <<sub, ctor, subs, buf>>

\* fs::remove_file
RemoveFile ==
    /\ Running
    /\ file.state # "absent"
    /\ file' = NoFile
    /\ ret' = Returned("remove_file", "unit", <<>>)
    /\ UNCHANGED <<sub, ctor, subs, buf>>

\* the file stops being readable
IoFault ==
    /\ Running
    /\ file.state = "ok"
    /\ file' = [file EXCEPT !.state = "ioerror"]
    /\ ret' = Returned("io_fault", "unit", <<>>)
    /\ UNCHANGED <<sub, ctor, subs, buf>>

FileDeserialize ==
    /\ Running
    /\ ret' = file_deserialize(file)
    /\ UNCHANGED <<sub, ctor, subs, buf, file>>

\* one subscription: construction, accessors, url rewrite, encode, decode
Next ==
    \/ \E url \in {testurl, newurl}, directory \in {<<>>, <<somedir>>} :
          New(url, testname, directory)
    \/ \E url \in {testurl, newurl} : SetUrl(url)
    \/ GetLatestEntryNumber
    \/ GetEarliestEntryName
    \/ GetLatestEntryName
    \/ Serialize
    \/ Deserialize
    \/ Unwrap
    \/ \E b \in BytesOne : Receive(b)

Spec == Init /\ [][Next]_vars

\* a collection of subscriptions: encode, decode, file load
NextVec ==
    \/ \E s \in PushValues : Push(s)
    \/ VecSerialize
    \/ VecDeserialize
    \/ Deserialize
    \/ \E b \in BytesMany : Receive(b)
    \/ WriteFile
    \/ RemoveFile
    \/ IoFault
    \/ FileDeserialize

SpecVec == Init /\ [][NextVec]_vars

-----------------------------------------------------------------------------
(* Properties.                                                             *)

\* C1: decoding the bytes serialize produced for a subscription returns
\* Some of a subscription equal to it on every field, feed_state included.
C1_RoundTrip ==
    [][(ret.op = "serialize" /\ ret'.op = "deserialize")
         => ret' = Returned("deserialize", "Some", <<sub[1]>>)]_vars

C1_Witness ==
    /\ ret.op = "deserialize" /\ ret.kind = "Some"
    /\ sub # <<>>
    /\ buf = serialize(sub[1])
    /\ ret.val[1] = sub[1]
    /\ Len(sub[1].feed_state.entries) >= 2
    /\ sub[1].feed_state.summary_queue # <<>>

\* C2: decoding the bytes vec_serialize produced for a collection returns
\* Some of a collection of the same length with an equal element at every
\* index.
C2_VecRoundTrip ==
    [][(ret.op = "vec_serialize" /\ ret'.op = "vec_deserialize")
         => /\ ret'.kind = "Some"
            /\ Len(ret'.val[1]) = Len(subs)
            /\ \A i \in 1..Len(subs) : ret'.val[1][i] = subs[i]]_vars

C2_Witness ==
    /\ ret.op = "vec_deserialize" /\ ret.kind = "Some"
    /\ buf = vec_serialize(subs)
    /\ ret.val[1] = subs
    /\ Len(subs) = MaxSubs
    /\ subs[1] # subs[2]

\* C3: Subscription::new(url, name, directory) has url and original_url the
\* given url, the given name, backlog_limit Some(0), use_title_as_filename
\* Some(false), latest_entry_number 0, empty entries, queue and
\* summary_queue, and the given directory or "fakedir" when none is given.
C3_New ==
    ret.op = "new" =>
      LET s == sub[1]
          a == ctor[1]
      IN /\ s.url = a.url
         /\ s.original_url = a.url
         /\ s.name = a.name
         /\ s.backlog_limit = <<U64Zero>>
         /\ s.use_title_as_filename = <<FALSE>>
         /\ s.feed_state.latest_entry_number = U64Zero
         /\ s.feed_state.entries = <<>>
         /\ s.feed_state.queue = <<>>
         /\ s.feed_state.summary_queue = <<>>
         /\ (a.directory # <<>> => s.directory = a.directory[1])
         /\ (a.directory = <<>> => s.directory = fakedir)

C3_Witness ==
    /\ ret.op = "new"
    /\ ctor # <<>>
    /\ ctor[1].directory = <<somedir>>
    /\ sub[1].directory = somedir

\* C4: get_latest_entry_name returns the title of the first element of
\* entries, get_earliest_entry_name the title of the last; both return the
\* empty string when entries is empty and the only element's title when
\* entries has one element.
C4_EntryNames ==
    LET entries == sub[1].feed_state.entries IN
    /\ ret.op = "get_latest_entry_name" =>
         ret.val[1] = IF Len(entries) = 0 THEN <<>> ELSE Head(entries).title
    /\ ret.op = "get_earliest_entry_name" =>
         ret.val[1] = IF Len(entries) = 0 THEN <<>>
                      ELSE entries[Len(entries)].title
    /\ (ret.op \in {"get_latest_entry_name", "get_earliest_entry_name"}
          /\ Len(entries) = 1) => ret.val[1] = entries[1].title

C4_Witness ==
    /\ ret.op = "get_earliest_entry_name"
    /\ Len(sub[1].feed_state.entries) >= 2
    /\ ret.val[1] # Head(sub[1].feed_state.entries).title

\* C5: no operation on a subscription (accessors, url rewrite, encode,
\* decode of a buffer) lowers what get_latest_entry_number returns for it.
\* A step of new or unwrap makes sub another subscription.
C5_NumberNeverDecreases ==
    [][(sub # <<>> /\ ret'.op \notin {"new", "unwrap"})
         => /\ sub' # <<>>
            /\ U64Geq(get_latest_entry_number(sub'[1]),
                      get_latest_entry_number(sub[1]))]_vars

C5_Witness ==
    /\ ret.op = "set_url"
    /\ sub # <<>>
    /\ get_latest_entry_number(sub[1]) # U64Zero

\* C8 as stated: both decode functions end the process on bytes that are
\* not a valid encoding.
C8_BothFatal ==
    /\ (ret.op = "deserialize" /\ buf \in MalformedOne) => ret.kind = "panic"
    /\ (ret.op = "vec_deserialize" /\ buf \in MalformedMany) => ret.kind = "panic"

\* C8: on bytes that are not a valid encoding vec_deserialize panics and
\* returns nothing, while deserialize returns None; neither returns a
\* decoded value.
C8_DecodeFailure ==
    /\ (ret.op = "deserialize" /\ buf \in MalformedOne) => ret.kind = "None"
    /\ (ret.op = "vec_deserialize" /\ buf \in MalformedMany) => ret.kind = "panic"

C8_Witness ==
    /\ ret.op = "deserialize"
    /\ buf \in MalformedOne
    /\ buf # <<>>
    /\ ret.kind = "None"

\* C9: file_deserialize returns what vec_deserialize returns on the file's
\* bytes: the collection, in order, when the file holds vec_serialize of it;
\* it panics when the file cannot be opened or read, and when the file holds
\* only the front of an encoded collection.
C9_FileLoad ==
    ret.op = "file_deserialize" =>
      /\ file.state # "ok" => ret.kind = "panic"
      /\ file.state = "ok" =>
           /\ ret.kind = vec_deserialize(file.bytes).kind
           /\ ret.val = vec_deserialize(file.bytes).val
      /\ \A v \in VecsUpTo(MaxSubs) :
           (file.state = "ok" /\ file.bytes = vec_serialize(v))
             => (ret.kind = "Some" /\ ret.val = <<v>>)
      /\ (file.state = "ok" /\ file.bytes = CutVecBytes) => ret.kind = "panic"

C9_Witness ==
    /\ ret.op = "file_deserialize"
    /\ ret.kind = "Some"
    /\ file.bytes = vec_serialize(ret.val[1])
    /\ Len(ret.val[1]) = MaxSubs
    /\ ret.val[1][1] # ret.val[1][2]

\* C10: whatever is done to a subscription built by Subscription::new
\* (accessors, rewriting url, encode), its original_url stays the url given
\* to new.
C10_OriginalUrlKept ==
    ctor # <<>> => sub[1].original_url = ctor[1].url

C10_Witness ==
    /\ ctor # <<>>
    /\ ret.op = "serialize"
    /\ sub[1].url # ctor[1].url
    /\ sub[1].original_url = ctor[1].url

====
